---- MODULE Spec2Model ----
(***************************************************************************)
(* Model of the todo backend (src/todo_backend/src/api/main.py): a FastAPI *)
(* service over one SQLite table `tasks`.                                  *)
(*                                                                         *)
(* Every request runs in its own worker thread and opens its own SQLite    *)
(* connection (get_conn), so requests interleave the way the storage       *)
(* engine allows:                                                          *)
(*   - a SELECT outside a transaction reads the committed table;           *)
(*   - the first INSERT/UPDATE/DELETE of a connection opens a transaction  *)
(*     and takes the database write lock; a second writer waits in the     *)
(*     busy handler until the lock is free;                                *)
(*   - until the commit nobody else sees what the writer wrote, and        *)
(*     nobody can change what the writer reads;                            *)
(*   - leaving `with get_conn()` normally commits, leaving it by an        *)
(*     exception closes the connection, which rolls the transaction back.  *)
(* A step of the model is therefore either the part of a handler up to     *)
(* its first write statement (validation, the clock, the SELECT outside a  *)
(* transaction), or its transaction: from the statement that takes the     *)
(* write lock to the commit or the rollback.                               *)
(* The busy handler's timeout (5 s by default) is not modelled: a waiting  *)
(* writer waits.                                                           *)
(***************************************************************************)
EXTENDS Integers, Sequences, FiniteSets

\* ------------------------------------------------------------- bounds
\* Worker threads serving requests concurrently.
Workers == {1, 2}
\* Requests served in one run.
MaxRequests == 3
\* Tasks created in one run, and so the ids a client puts in a path
\* parameter: 1..MaxId.
MaxId == 2
\* The instants at which datetime.utcnow() is read, in order: a read is
\* later than the read before it.
Clock ==
    << [sec |-> 0, usec |-> 0],
       [sec |-> 0, usec |-> 500000],
       [sec |-> 1, usec |-> 0] >>

\* ---------------------------------------------------- program constants
\* Field(min_length=1, max_length=255) of TaskCreate.title / TaskUpdate.title
MinTitleLen == 1
MaxTitleLen == 255

\* fetchone() found no row.
NoRow == [none |-> TRUE]
Found(row) == "id" \in DOMAIN row
\* An Optional field is <<>> when the request leaves it out (None) and <<v>>
\* when the request gives v.
None == <<>>
Some(v) == <<v>>
IsNone(o) == Len(o) = 0

\* ------------------------------------------------------------ helpers
SetMax(S) == CHOOSE x \in S : \A y \in S : y <= x

Rep(c, n) == [i \in 1..n |-> c]

IsSpace(c) == c = " "

\* str.strip(): drop leading and trailing whitespace.
RECURSIVE LStrip(_)
LStrip(s) == IF s # <<>> /\ IsSpace(Head(s)) THEN LStrip(Tail(s)) ELSE s
RECURSIVE RStrip(_)
RStrip(s) ==
    IF s # <<>> /\ IsSpace(s[Len(s)]) THEN RStrip(SubSeq(s, 1, Len(s) - 1)) ELSE s
Strip(s) == RStrip(LStrip(s))

\* pydantic's length constraints, applied to the string as received.
ValidTitle(t) == Len(t) >= MinTitleLen /\ Len(t) <= MaxTitleLen

\* Titles a client sends.
TitleInputs ==
    { <<>>,
      <<" ">>,
      <<" ">> \o Rep("a", MaxTitleLen - 1),
      <<" ">> \o Rep("a", MaxTitleLen) }

\* datetime.isoformat(): the fraction of a second is left out when it is 0.
isoformat(t) == IF t.usec = 0 THEN <<t.sec>> ELSE <<t.sec, t.usec>>

\* SQL datetime(): 'YYYY-MM-DD HH:MM:SS', the fraction of a second dropped.
datetime(s) == s[1]

\* `1 if payload.completed else 0`: None counts as false.
BoolToInt(o) == IF ~IsNone(o) /\ o[1] THEN 1 ELSE 0

row_to_task(row) ==
    [id |-> row.id, title |-> row.title,
     completed |-> (row.completed # 0), created_at |-> row.created_at]

\* ------------------------------------------------------ SQL statements
RowIds(table) == {r.id : r \in table}

\* SELECT ... WHERE id = ? ... fetchone()
SelectById(table, id) ==
    IF \E r \in table : r.id = id THEN CHOOSE r \in table : r.id = id ELSE NoRow

\* (mutant) the rowid of a plain INTEGER PRIMARY KEY: one more than the
\* largest rowid in the table now.
NextRowid_Reuse(table, sq) == SetMax({0} \cup RowIds(table)) + 1

\* The rowid of INTEGER PRIMARY KEY AUTOINCREMENT: one more than the largest
\* rowid the table ever held (kept in sqlite_sequence).
NextRowid(table, sq) == SetMax({sq} \cup RowIds(table)) + 1

\* INSERT INTO tasks (title, completed, created_at) VALUES (?, ?, ?)
InsertRow(table, id, title, completed, created_at) ==
    table \cup {[id |-> id, title |-> title, completed |-> completed,
                 created_at |-> created_at]}

\* (mutant) completed is written whether the payload carries it or not.
UpdatedRow_Overwrites(r, title, completed) ==
    [r EXCEPT !.title = IF IsNone(title) THEN @ ELSE Strip(title[1]),
              !.completed = BoolToInt(completed)]

\* The SET list update_task builds: only the fields the payload carries.
UpdatedRow(r, title, completed) ==
    [r EXCEPT !.title = IF IsNone(title) THEN @ ELSE Strip(title[1]),
              !.completed = IF IsNone(completed) THEN @ ELSE BoolToInt(completed)]

\* UPDATE tasks SET ... WHERE id = ?
UpdateRow(table, id, title, completed) ==
    {IF r.id = id THEN UpdatedRow(r, title, completed) ELSE r : r \in table}

\* (mutant) the toggle sets the flag instead of flipping it.
NewCompleted_AlwaysSet(row) == 1

\* new_completed = 0 if bool(row["completed"]) else 1
NewCompleted(row) == IF row.completed # 0 THEN 0 ELSE 1

\* UPDATE tasks SET completed = ? WHERE id = ?
SetCompleted(table, id, c) ==
    {IF r.id = id THEN [r EXCEPT !.completed = c] ELSE r : r \in table}

\* (mutant) the DELETE removes nothing.
DeleteRow_Keeps(table, id) == table

\* DELETE FROM tasks WHERE id = ?
DeleteRow(table, id) == {r \in table : r.id # id}

\* (mutant) the rowcount is not looked at: as if a row were always deleted.
DeleteRowcount_Unchecked(table, id) == 1

\* cursor.rowcount of that DELETE
DeleteRowcount(table, id) == Cardinality({r \in table : r.id = id})

\* SELECT ... ORDER BY datetime(created_at) DESC: every order of the rows in
\* which the sort key never increases; rows with equal keys come in any order.
ListOrders(table) ==
    LET n == Cardinality(table)
    IN  {s \in [1..n -> table] :
            /\ \A i, j \in 1..n : i # j => s[i] # s[j]
            /\ \A i, j \in 1..n :
                  i < j => datetime(s[i].created_at) >= datetime(s[j].created_at)}

\* -------------------------------------------------------------- state
VARIABLES
    db,          \* the committed rows of table tasks
    seq,         \* sqlite_sequence of tasks: the largest rowid ever handed out
    now,         \* the index in Clock of the last instant datetime.utcnow() gave
    pc,          \* per worker: the part of its handler it runs next
    req,         \* per worker: the request it serves
    loc,         \* per worker: the handler's local variables
    served,      \* requests accepted so far
    last,        \* history: the response this step sent, with its request
    issued,      \* history: the ids create_task returned, in the order returned
    before,      \* history: <<i, j>> when create of i had returned as create of j began
    deleted,     \* history: ids whose delete_task returned 204
    lastToggle,  \* history: per task, the toggle that was the last write to it
    aux          \* history, per worker: what its request met since it began

vars == <<db, seq, now, pc, req, loc, served, last, issued, before, deleted,
          lastToggle, aux>>

NoReq == [op |-> "none", id |-> 0, title |-> None, completed |-> None]
NoLoc == [created_at |-> <<>>, row |-> NoRow]
NoAux == [pre |-> {}, chain |-> None, writes |-> <<>>, gone |-> FALSE]
NoLast == [worker |-> 0, req |-> NoReq, status |-> 0,
           body |-> <<>>, read |-> NoRow, stored |-> NoRow, aux |-> NoAux]

Init ==
    /\ db = {}
    /\ seq = 0
    /\ now = 0
    /\ pc = [w \in Workers |-> "idle"]
    /\ req = [w \in Workers |-> NoReq]
    /\ loc = [w \in Workers |-> NoLoc]
    /\ served = 0
    /\ last = NoLast
    /\ issued = <<>>
    /\ before = {}
    /\ deleted = {}
    /\ lastToggle = {}
    /\ aux = [w \in Workers |-> NoAux]

TaskIds == 1..MaxId
OptTitles == {None} \cup {Some(t) : t \in TitleInputs}
OptBools == {None, Some(TRUE), Some(FALSE)}

InFlight(w) == pc[w] # "idle"

\* A request goes to a free worker; the workers are alike, so to the first one.
Free(w) ==
    /\ pc[w] = "idle"
    /\ \A v \in Workers : v < w => pc[v] # "idle"
    /\ served < MaxRequests

\* The response leaves: the handler is over, its locals are gone.  `l` holds
\* the handler's locals, `a` its history, `table` the table it leaves behind.
Reply(w, r, status, body, l, a, table) ==
    /\ pc' = [pc EXCEPT ![w] = "idle"]
    /\ req' = [req EXCEPT ![w] = NoReq]
    /\ loc' = [loc EXCEPT ![w] = NoLoc]
    /\ last' = [worker |-> w, req |-> r, status |-> status,
                body |-> body, read |-> l.row, aux |-> a,
                stored |-> SelectById(table, IF r.op = "create" /\ status = 201
                                             THEN body.id ELSE r.id)]

\* The handler goes on to its transaction.
Goto(w, r, label, l, a) ==
    /\ pc' = [pc EXCEPT ![w] = label]
    /\ req' = [req EXCEPT ![w] = r]
    /\ loc' = [loc EXCEPT ![w] = l]
    /\ aux' = [aux EXCEPT ![w] = a]
    /\ last' = NoLast

\* History: worker w commits a write of kind op to task id.
NoteWrite(w, op, id) ==
    [v \in Workers |->
        IF v = w THEN NoAux
        ELSE IF InFlight(v) /\ req[v].id = id
        THEN [aux[v] EXCEPT !.writes = Append(@, <<w, op>>)]
        ELSE aux[v]]

\* History: worker w is over without a write.
NoteDone(w) == [aux EXCEPT ![w] = NoAux]

\* History: the toggle that was the last write to task id, if a toggle it was.
ChainOf(id) ==
    IF \E e \in lastToggle : e.id = id
    THEN Some(CHOOSE e \in lastToggle : e.id = id)
    ELSE None

Forget(id) == {e \in lastToggle : e.id # id}

\* ------------------------------------------------------- create_task
CreateBegin(w) ==
    /\ Free(w)
    /\ seq + Cardinality({v \in Workers : pc[v] = "create_tx"}) < MaxId
    /\ served' = served + 1
    /\ \E title \in TitleInputs, completed \in OptBools :
          LET r == [op |-> "create", id |-> 0, title |-> Some(title),
                    \* Field(default=False)
                    completed |-> IF IsNone(completed) THEN Some(FALSE) ELSE completed]
              a == [NoAux EXCEPT !.pre = {issued[k] : k \in 1..Len(issued)}]
          IN  IF ~ValidTitle(title)
              THEN /\ Reply(w, r, 422, <<>>, NoLoc, a, db)
                   /\ aux' = NoteDone(w)
                   /\ UNCHANGED now
              ELSE \E t \in (now + 1)..Len(Clock) :
                   /\ now' = t
                   /\ Goto(w, r, "create_tx",
                           [NoLoc EXCEPT !.created_at = isoformat(Clock[t])], a)
    /\ UNCHANGED <<db, seq, issued, before, deleted, lastToggle>>

CreateTx(w) ==
    /\ pc[w] = "create_tx"
    /\ LET task_id == NextRowid(db, seq)
           table == InsertRow(db, task_id, Strip(req[w].title[1]),
                              BoolToInt(req[w].completed), loc[w].created_at)
           row == SelectById(table, task_id)
       IN  /\ db' = table
           /\ seq' = task_id
           /\ Reply(w, req[w], 201, row_to_task(row), [loc[w] EXCEPT !.row = row],
                    aux[w], table)
           /\ issued' = Append(issued, task_id)
           /\ before' = before \cup {<<i, task_id>> : i \in aux[w].pre}
    /\ aux' = NoteDone(w)
    /\ UNCHANGED <<now, served, deleted, lastToggle>>

\* -------------------------------------------------------- list_tasks
ListTasks(w) ==
    /\ Free(w)
    /\ served' = served + 1
    /\ \E rows \in ListOrders(db) :
          Reply(w, [NoReq EXCEPT !.op = "list"], 200,
                [i \in 1..Len(rows) |-> row_to_task(rows[i])], NoLoc, NoAux, db)
    /\ aux' = NoteDone(w)
    /\ UNCHANGED <<db, seq, now, issued, before, deleted, lastToggle>>

\* ------------------------------------------------------- update_task
UpdateBegin(w) ==
    /\ Free(w)
    /\ served' = served + 1
    /\ \E id \in TaskIds, title \in OptTitles, completed \in OptBools :
          LET r == [op |-> "update", id |-> id, title |-> title,
                    completed |-> completed]
              a == [NoAux EXCEPT !.gone = id \in deleted]
              existing == SelectById(db, id)
          IN  IF ~IsNone(title) /\ ~ValidTitle(title[1])
              THEN Reply(w, r, 422, <<>>, NoLoc, a, db) /\ aux' = NoteDone(w)
              ELSE IF IsNone(title) /\ IsNone(completed)
              THEN Reply(w, r, 400, <<>>, NoLoc, a, db) /\ aux' = NoteDone(w)
              ELSE IF ~Found(existing)
              THEN Reply(w, r, 404, <<>>, NoLoc, a, db) /\ aux' = NoteDone(w)
              ELSE Goto(w, r, "update_tx", [NoLoc EXCEPT !.row = existing], a)
    /\ UNCHANGED <<db, seq, now, issued, before, deleted, lastToggle>>

UpdateTx(w) ==
    /\ pc[w] = "update_tx"
    /\ LET id == req[w].id
           table == UpdateRow(db, id, req[w].title, req[w].completed)
           row == SelectById(table, id)
       IN  IF ~Found(row)
           THEN \* row_to_task(None) raises, nothing is committed
                /\ Reply(w, req[w], 500, <<>>, loc[w], aux[w], db)
                /\ aux' = NoteDone(w)
                /\ UNCHANGED <<db, lastToggle>>
           ELSE /\ db' = table
                /\ Reply(w, req[w], 200, row_to_task(row), loc[w], aux[w], table)
                /\ aux' = NoteWrite(w, "update", id)
                /\ lastToggle' = Forget(id)
    /\ UNCHANGED <<seq, now, served, issued, before, deleted>>

\* ------------------------------------------------------- toggle_task
ToggleBegin(w) ==
    /\ Free(w)
    /\ served' = served + 1
    /\ \E id \in TaskIds :
          LET r == [NoReq EXCEPT !.op = "toggle", !.id = id]
              a == [NoAux EXCEPT !.gone = id \in deleted, !.chain = ChainOf(id)]
              row == SelectById(db, id)
          IN  IF ~Found(row)
              THEN Reply(w, r, 404, <<>>, NoLoc, a, db) /\ aux' = NoteDone(w)
              ELSE Goto(w, r, "toggle_tx", [NoLoc EXCEPT !.row = row], a)
    /\ UNCHANGED <<db, seq, now, issued, before, deleted, lastToggle>>

ToggleTx(w) ==
    /\ pc[w] = "toggle_tx"
    /\ LET id == req[w].id
           new_completed == NewCompleted(loc[w].row)
           table == SetCompleted(db, id, new_completed)
           row == SelectById(table, id)
       IN  IF ~Found(row)
           THEN \* row_to_task(None) raises, nothing is committed
                /\ Reply(w, req[w], 500, <<>>, loc[w], aux[w], db)
                /\ aux' = NoteDone(w)
                /\ UNCHANGED <<db, lastToggle>>
           ELSE /\ db' = table
                /\ Reply(w, req[w], 200, row_to_task(row), loc[w], aux[w], table)
                /\ aux' = NoteWrite(w, "toggle", id)
                /\ lastToggle' = Forget(id) \cup
                       {[id |-> id, pre |-> (loc[w].row.completed # 0),
                         ret |-> row_to_task(row).completed]}
    /\ UNCHANGED <<seq, now, served, issued, before, deleted>>

\* ------------------------------------------------------- delete_task
DeleteTask(w) ==
    /\ Free(w)
    /\ served' = served + 1
    /\ \E id \in TaskIds :
          LET r == [NoReq EXCEPT !.op = "delete", !.id = id]
              a == [NoAux EXCEPT !.gone = id \in deleted]
          IN  IF DeleteRowcount(db, id) = 0
              THEN \* the 404 leaves `with get_conn()` by an exception
                   /\ Reply(w, r, 404, <<>>, NoLoc, a, db)
                   /\ aux' = NoteDone(w)
                   /\ UNCHANGED <<db, deleted, lastToggle>>
              ELSE /\ db' = DeleteRow(db, id)
                   /\ Reply(w, r, 204, <<>>, NoLoc, a, DeleteRow(db, id))
                   /\ aux' = NoteWrite(w, "delete", id)
                   /\ deleted' = deleted \cup {id}
                   /\ lastToggle' = Forget(id)
    /\ UNCHANGED <<seq, now, issued, before>>

\* ------------------------------------------------------ specification
Next ==
    \E w \in Workers :
        \/ CreateBegin(w)
        \/ CreateTx(w)
        \/ ListTasks(w)
        \/ UpdateBegin(w)
        \/ UpdateTx(w)
        \/ ToggleBegin(w)
        \/ ToggleTx(w)
        \/ DeleteTask(w)

Spec == Init /\ [][Next]_vars

\* ------------------------------------------------------------ claims
\* The request the last response answers, and what the history holds of it.
Answered(op) == last.req.op = op
Positions(id) == {k \in 1..Len(last.body) : last.body[k].id = id}

\* A step in which worker w takes a request, and that request.
BeginStep(w) ==
    /\ pc[w] = "idle"
    /\ served' = served + 1
    /\ pc'[w] # "idle" \/ last'.worker = w
StepReq(w) == IF pc'[w] # "idle" THEN req'[w] ELSE last'.req

\* The request passes update_task's validation (422, 400).
PassesValidation(r) ==
    r.op = "update" =>
        /\ IsNone(r.title) \/ ValidTitle(r.title[1])
        /\ ~(IsNone(r.title) /\ IsNone(r.completed))

\* C1 (as claimed): every create_task whose title has between 1 and 255
\* characters after trimming answers 201 with the trimmed title, the completed
\* flag of the request (false when it gives none), a non-empty id and
\* created_at, and that is the task stored.
C1_TrimmedTitleAccepted ==
    (/\ Answered("create")
     /\ Len(Strip(last.req.title[1])) >= MinTitleLen
     /\ Len(Strip(last.req.title[1])) <= MaxTitleLen)
    => /\ last.status = 201
       /\ last.body.title = Strip(last.req.title[1])
       /\ last.body.completed = last.req.completed[1]
       /\ last.body.id >= 1
       /\ last.body.created_at # <<>>
       /\ Found(last.stored)
       /\ last.stored.title = last.body.title

\* C2 (as claimed): a create_task or update_task whose title is empty after
\* trimming is rejected and writes nothing, so no stored task has an empty
\* title.
C2_NoBlankTitle ==
    /\ \A r \in db : r.title # <<>>
    /\ (/\ last.req.op \in {"create", "update"}
        /\ ~IsNone(last.req.title)
        /\ Strip(last.req.title[1]) = <<>>)
       => last.status \notin {200, 201}

\* C3 (as claimed): when create_task of T1 returned before create_task of T2
\* began, list_tasks gives T2 before T1.
C3_NewestFirst ==
    Answered("list") =>
        \A p \in before :
            \A k1 \in Positions(p[1]), k2 \in Positions(p[2]) : k2 < k1

C5_ToggleTwice ==
    (/\ Answered("toggle")
     /\ last.status = 200
     /\ ~IsNone(last.aux.chain)
     /\ last.aux.writes = <<>>)
    => LET first == last.aux.chain[1]
       IN  /\ first.ret = ~first.pre
           /\ last.body.completed = first.pre
           /\ Found(last.stored)
           /\ (last.stored.completed # 0) = first.pre

C5_Witness ==
    /\ Answered("toggle")
    /\ last.status = 200
    /\ ~IsNone(last.aux.chain)
    /\ last.aux.writes = <<>>

\* C6: once delete_task of an id answered 204, no stored task has that id,
\* list_tasks shows none, and update_task, toggle_task and delete_task of that
\* id answer 404 whenever they begin later.
C6_DeletedForGood ==
    /\ \A r \in db : r.id \notin deleted
    /\ Answered("list") => \A k \in 1..Len(last.body) : last.body[k].id \notin deleted
    /\ (/\ last.req.op \in {"update", "toggle", "delete"}
        /\ last.aux.gone
        /\ PassesValidation(last.req))
       => last.status = 404

C6_Witness ==
    /\ last.req.op \in {"update", "toggle", "delete"}
    /\ last.aux.gone
    /\ last.status = 404

\* C7: every create_task returns an id greater than all ids returned before,
\* and no two stored tasks share an id.
C7_IdsIncrease ==
    /\ \A i, j \in 1..Len(issued) : i < j => issued[i] < issued[j]
    /\ \A r1, r2 \in db : r1.id = r2.id => r1 = r2
    /\ (Answered("create") /\ last.status = 201)
       => last.body.id = issued[Len(issued)]

C7_Witness ==
    /\ Answered("create")
    /\ last.status = 201
    /\ Len(issued) >= 2
    /\ issued[1] \in deleted

\* C8 (as claimed): a toggle_task during which one other toggle_task of the
\* same task committed succeeds and leaves completed at the value it had
\* before the two.
C8_NoLostToggle ==
    (/\ Answered("toggle")
     /\ Len(last.aux.writes) = 1
     /\ last.aux.writes[1][2] = "toggle")
    => /\ last.status = 200
       /\ Found(last.stored)
       /\ last.stored.completed = last.read.completed

\* C9: a successful update_task changes only the fields its request carries
\* and a successful toggle_task only completed: id and created_at stay, a
\* field not given stays, and every other task stays.
C9_Frame ==
    [][\A w \in Workers :
          (/\ pc[w] \in {"update_tx", "toggle_tx"}
           /\ pc'[w] = "idle"
           /\ last'.status = 200)
          => LET r == req[w]
                 old == SelectById(db, r.id)
                 new == SelectById(db', r.id)
             IN  /\ Found(old) /\ Found(new)
                 /\ new.id = old.id
                 /\ new.created_at = old.created_at
                 /\ (r.op = "toggle" \/ IsNone(r.title)) => new.title = old.title
                 /\ (r.op = "update" /\ IsNone(r.completed))
                       => new.completed = old.completed
                 /\ {x \in db' : x.id # r.id} = {x \in db : x.id # r.id}
                 /\ Cardinality(db') = Cardinality(db)
                 /\ seq' = seq]_vars

C9_Witness ==
    /\ Answered("update")
    /\ last.status = 200
    /\ IsNone(last.req.completed)
    /\ last.stored.completed = 1
    /\ Cardinality(db) >= 2

\* C10 (as claimed): an update_task or toggle_task during which a delete_task
\* of the same task committed answers 200 or 404.
C10_NoInternalError ==
    (/\ last.req.op \in {"update", "toggle"}
     /\ \E k \in 1..Len(last.aux.writes) : last.aux.writes[k][2] = "delete")
    => last.status \in {200, 404}

====
